---- MODULE Spec2Model ----
(***************************************************************************)
(* AIReplay (astrbot_plugin_AIReplay, main.py): the proactive-reply        *)
(* scheduler.  The model keeps the plugin's two stores (_states,           *)
(* _reminders), their persisted documents, the configuration, the wall     *)
(* clock and the position of the scheduler task inside _tick.              *)
(*                                                                         *)
(* Time is the epoch timestamp in seconds.  Strings are modelled by what   *)
(* the code reads from them: an "HH:MM" string by the pair of numbers its  *)
(* digits spell, a date string "YYYY-MM-DD" by the number of the day, the  *)
(* empty string by <<>>, a firing tag "idle@<date> <HH:MM>" by the tuple   *)
(* <<"idle", date, hour, minute>>.                                         *)
(*                                                                         *)
(* Coroutines run atomically between two awaits of an external call; the   *)
(* awaits of _tick are provider.text_chat (pc "chat") and                  *)
(* context.send_message (pc "send" in _proactive_reply, pc "rsend" in      *)
(* _check_reminders).                                                      *)
(***************************************************************************)
EXTENDS Integers, Sequences, FiniteSets, Bags, TLC

VARIABLES
    clock,      \* the wall clock, seconds since the epoch
    cfg,        \* self.cfg
    states,     \* self._states: umo -> SessionState
    umos,       \* the keys of self._states in insertion order
    stateDoc,   \* state.json
    reminders,  \* self._reminders: the dict's entries in insertion order
    remindDoc,  \* reminders.json
    tk,         \* the scheduler task: its position in _tick and its locals
    wakeAt,     \* when the scheduler's sleep(30) ends
    sent,       \* the messages context.send_message delivered
    trace       \* what the current or latest tick did: its now, its calls of
                \* _proactive_reply, the sessions it logged as auto-unsubscribed

vars == <<clock, cfg, states, umos, stateDoc, reminders, remindDoc, tk, wakeAt,
          sent, trace>>

-----------------------------------------------------------------------------
(* Bounds of the model *)

\* seconds between two observed instants of the clock
ClockStep == 30
\* clock steps the model follows after the start of a window
MaxTicks == 4
\* whole-day jumps of the clock
MaxDayJumps == 1
\* entries the _reminders dict ever receives
MaxSlots == 2
\* inbound messages that append to one session's history
MaxHistory == 1
\* failed attempts counted per session
MaxNoReply == 2
\* entries of a stored history beyond the capacity of the deque
MaxOver == 2
\* inbound messages appended to a loaded history
MaxAppends == 3
\* items of a conversation history the host returns
MaxItems == 2

(* Program constants *)

\* deque(maxlen=32)
HistCap == 32
\* asyncio.sleep(30)
SleepSeconds == 30
\* int(self.cfg.get("history_depth") or 8)
HistoryDepth == 8

SecPerMin == 60
SecPerHour == 60 * 60
SecPerDay == 24 * 60 * 60

\* the model starts on day 0 at 23:59:00
StartClock == SecPerDay - SecPerMin

Sessions == {"s1", "s2"}

NoStr == <<>>
None == <<>>
NoTag == <<>>
Tomb == [id |-> NoStr]

-----------------------------------------------------------------------------
(* datetime *)

DateOf(ts) == ts \div SecPerDay
HourOf(ts) == (ts % SecPerDay) \div SecPerHour
MinuteOf(ts) == (ts % SecPerHour) \div SecPerMin
\* now.time(): the time of day, seconds included
TimeOfDay(ts) == ts % SecPerDay
\* time(h, m)
TimeHM(p) == p[1] * SecPerHour + p[2] * SecPerMin

\* _parse_hhmm: ^([01]?\d|2[0-3]):([0-5]\d)$
_parse_hhmm(s) ==
    IF s = NoStr THEN None
    ELSE IF s[1] <= 23 /\ s[2] <= 59 THEN s ELSE None

\* mutant: the end of the window is outside it
_in_quiet_open_end(now, quiet) ==
    IF quiet = NoStr \/ Len(quiet) < 2 THEN FALSE
    ELSE LET p1 == _parse_hhmm(quiet[1])
             p2 == _parse_hhmm(quiet[2])
         IN IF p1 = None \/ p2 = None THEN FALSE
            ELSE LET t1 == TimeHM(p1)
                     t2 == TimeHM(p2)
                     nt == TimeOfDay(now)
                 IN IF t1 <= t2 THEN t1 <= nt /\ nt < t2
                    ELSE nt >= t1 \/ nt < t2

\* _in_quiet(now, quiet); quiet is "", a text without "-" (a tuple of one
\* part) or "<a>-<b>"
_in_quiet(now, quiet) ==
    IF quiet = NoStr \/ Len(quiet) < 2 THEN FALSE
    ELSE LET p1 == _parse_hhmm(quiet[1])
             p2 == _parse_hhmm(quiet[2])
         IN IF p1 = None \/ p2 = None THEN FALSE
            ELSE LET t1 == TimeHM(p1)
                     t2 == TimeHM(p2)
                     nt == TimeOfDay(now)
                 IN IF t1 <= t2 THEN t1 <= nt /\ nt <= t2
                    ELSE nt >= t1 \/ nt <= t2

-----------------------------------------------------------------------------
(* SessionState and its persistence *)

SessionState ==
    [last_ts |-> 0, history |-> <<>>, subscribed |-> FALSE,
     last_fired_tag |-> NoTag, last_user_reply_ts |-> 0,
     consecutive_no_reply_count |-> 0]

\* self._states = {}
NoStates == [u \in {} |-> SessionState]

\* mutant: a full deque drops its newest entry
HistAppendDropNewest(h, e) ==
    IF Len(h) < HistCap THEN Append(h, e)
    ELSE Append(SubSeq(h, 1, Len(h) - 1), e)

\* deque(maxlen=32).append
HistAppend(h, e) ==
    IF Len(h) < HistCap THEN Append(h, e) ELSE Append(Tail(h), e)

\* history = deque(maxlen=32); for h in st["history"]: history.append(h)
RECURSIVE LoadHistory(_, _)
LoadHistory(src, acc) ==
    IF src = <<>> THEN acc
    ELSE LoadHistory(Tail(src), HistAppend(acc, Head(src)))

\* st.get(key, default)
Get(rec, key, default) == IF key \in DOMAIN rec THEN rec[key] ELSE default

\* mutant: last_fired_tag is not read from the document
_load_states_no_tag(d) ==
    [u \in DOMAIN d |->
        [last_ts |-> Get(d[u], "last_ts", 0),
         history |-> LoadHistory(Get(d[u], "history", <<>>), <<>>),
         subscribed |-> Get(d[u], "subscribed", FALSE),
         last_fired_tag |-> NoStr,
         last_user_reply_ts |-> Get(d[u], "last_user_reply_ts", 0),
         consecutive_no_reply_count |->
             Get(d[u], "consecutive_no_reply_count", 0)]]

\* _load_states: every field is read with st.get(key, default), the history
\* is appended entry by entry to a new deque
_load_states(d) ==
    [u \in DOMAIN d |->
        [last_ts |-> Get(d[u], "last_ts", 0),
         history |-> LoadHistory(Get(d[u], "history", <<>>), <<>>),
         subscribed |-> Get(d[u], "subscribed", FALSE),
         last_fired_tag |-> Get(d[u], "last_fired_tag", NoStr),
         last_user_reply_ts |-> Get(d[u], "last_user_reply_ts", 0),
         consecutive_no_reply_count |->
             Get(d[u], "consecutive_no_reply_count", 0)]]

\* _save_states: the document written to state.json
_save_states(S) == [u \in DOMAIN S |-> S[u]]

\* _save_reminders: the array written to reminders.json
_save_reminders(R) == SelectSeq(R, LAMBDA r : r # Tomb)

\* self._states[umo], created on first use
GetOrCreate(S, u) ==
    IF u \in DOMAIN S THEN S
    ELSE [v \in DOMAIN S \cup {u} |-> IF v = u THEN SessionState ELSE S[v]]

-----------------------------------------------------------------------------
(* _tick *)

\* no conversation fetched
NoRaw == [kind |-> "none"]

TkSleep ==
    [pc |-> "sleep", now |-> 0, quiet |-> NoStr, t1 |-> None, t2 |-> None,
     todo |-> <<>>, stage |-> "none", text |-> "",
     ri |-> 0, rsize |-> 0, rleft |-> 0, r |-> Tomb, fired_ids |-> <<>>,
     raw |-> NoRaw, contexts |-> <<>>]

\* mutant: the nudge does not carry into the hour
EffectiveT2NoCarry(t1, t2) ==
    IF t1 # None /\ t2 # None /\ t1 = t2
    THEN <<t2[1], (t2[2] + 1) % 60>>
    ELSE t2

\* the nudge of t2 when both daily times are equal
EffectiveT2(t1, t2) ==
    IF t1 # None /\ t2 # None /\ t1 = t2
    THEN LET m == (t2[2] + 1) % 60
             h == (t2[1] + (IF m = 0 THEN 1 ELSE 0)) % 24
         IN <<h, m>>
    ELSE t2

\* mutant: the idle tag names the hour only
IdleTagHourly(now) == <<"idle", DateOf(now), HourOf(now), 0>>

IdleTag(now) == <<"idle", DateOf(now), HourOf(now), MinuteOf(now)>>
DailyTag(slot, now, t) ==
    IF t = None THEN NoTag ELSE <<slot, DateOf(now), t[1], t[2]>>

\* the tag the branch of _tick at this stage compares and sets
StageTag(T) ==
    CASE T.stage = "idle" -> IdleTag(T.now)
      [] T.stage = "daily1" -> DailyTag("daily1", T.now, T.t1)
      [] T.stage = "daily2" -> DailyTag("daily2", T.now, T.t2)

\* mutant: the idle time is counted from the user's last message
IdleDueSinceUser(st, now, idle_min) ==
    /\ idle_min > 0
    /\ st.last_user_reply_ts > 0
    /\ now - st.last_user_reply_ts >= idle_min * SecPerMin

IdleDue(st, now, idle_min) ==
    /\ idle_min > 0
    /\ st.last_ts > 0
    /\ now - st.last_ts >= idle_min * SecPerMin

DailyDue(now, t) ==
    t # None /\ HourOf(now) = t[1] /\ MinuteOf(now) = t[2]

\* mutant: the daily branches do not compare last_fired_tag
StageFiresDailyNoTag(st, T) ==
    CASE T.stage = "idle" ->
            IdleDue(st, T.now, cfg.after_last_msg_minutes)
            /\ st.last_fired_tag # IdleTag(T.now)
      [] T.stage = "daily1" -> DailyDue(T.now, T.t1)
      [] T.stage = "daily2" -> DailyDue(T.now, T.t2)

\* mutant: a daily branch is skipped when the idle branch has just fired
StageFiresExclusive(st, T) ==
    CASE T.stage = "idle" ->
            IdleDue(st, T.now, cfg.after_last_msg_minutes)
            /\ st.last_fired_tag # IdleTag(T.now)
      [] T.stage = "daily1" ->
            DailyDue(T.now, T.t1)
            /\ st.last_fired_tag # DailyTag("daily1", T.now, T.t1)
            /\ st.last_fired_tag # IdleTag(T.now)
      [] T.stage = "daily2" ->
            DailyDue(T.now, T.t2)
            /\ st.last_fired_tag # DailyTag("daily2", T.now, T.t2)
            /\ st.last_fired_tag # IdleTag(T.now)

\* the condition under which the branch at this stage calls _proactive_reply
StageFires(st, T) ==
    CASE T.stage = "idle" ->
            IdleDue(st, T.now, cfg.after_last_msg_minutes)
            /\ st.last_fired_tag # IdleTag(T.now)
      [] T.stage = "daily1" ->
            DailyDue(T.now, T.t1)
            /\ st.last_fired_tag # DailyTag("daily1", T.now, T.t1)
      [] T.stage = "daily2" ->
            DailyDue(T.now, T.t2)
            /\ st.last_fired_tag # DailyTag("daily2", T.now, T.t2)

\* mutant: the threshold is exclusive
_should_auto_unsubscribe_gt(st, now) ==
    /\ cfg.max_no_reply_days > 0
    /\ st.last_user_reply_ts > 0
    /\ (now - st.last_user_reply_ts) \div SecPerDay > cfg.max_no_reply_days

\* _should_auto_unsubscribe: (now - last_reply).days >= max_days
_should_auto_unsubscribe(st, now) ==
    /\ cfg.max_no_reply_days > 0
    /\ st.last_user_reply_ts > 0
    /\ (now - st.last_user_reply_ts) \div SecPerDay >= cfg.max_no_reply_days

\* the statement after the branch at this stage
AfterStage(T) ==
    CASE T.stage = "idle" -> [T EXCEPT !.stage = "daily1"]
      [] T.stage = "daily1" -> [T EXCEPT !.stage = "daily2"]
      [] T.stage = "daily2" -> [T EXCEPT !.stage = "begin", !.todo = Tail(@)]

LiveCount(R) == Len(SelectSeq(R, LAMBDA r : r # Tomb))

\* position of the first entry at or after i that is not deleted, 0 if none
RECURSIVE NextLive(_, _)
NextLive(R, i) ==
    IF i > Len(R) THEN 0
    ELSE IF R[i] # Tomb THEN i ELSE NextLive(R, i + 1)

\* for rid in fired_ids: self._reminders.pop(rid, None)
PopFired(R, fired) ==
    [i \in 1..Len(R) |->
        IF R[i] # Tomb /\ (\E k \in 1..Len(fired) : fired[k] = R[i].id)
        THEN Tomb ELSE R[i]]

\* mutant: no reminder is due during quiet hours
ReminderDueUnlessQuiet(r, now) ==
    /\ ~_in_quiet(now, cfg.quiet_hours)
    /\ _parse_hhmm(r.at.hm) # None
    /\ r.at.daily \/ DateOf(now) = r.at.date
    /\ HourOf(now) = r.at.hm[1] /\ MinuteOf(now) = r.at.hm[2]

\* whether the reminder is due at the tick's now
ReminderDue(r, now) ==
    IF r.at.daily
    THEN LET t == _parse_hhmm(r.at.hm)
         IN t # None /\ HourOf(now) = t[1] /\ MinuteOf(now) = t[2]
    ELSE /\ _parse_hhmm(r.at.hm) # None
         /\ DateOf(now) = r.at.date
         /\ HourOf(now) = r.at.hm[1] /\ MinuteOf(now) = r.at.hm[2]

(* Run(c, prov): the tick runs from its position to the next await, to its *)
(* end (pc "done") or to an exception that leaves _tick (pc "dead").       *)
(* c = [st, sdoc, rem, rdoc, tk, tr]; prov tells whether the host resolves a   *)
(* provider during this stretch.                                           *)
RECURSIVE Run(_, _)
Run(c, prov) ==
    LET T == c.tk IN
    CASE T.stage = "begin" ->
            IF T.todo = <<>>
            THEN Run([c EXCEPT !.tk.stage = "remind", !.tk.ri = 1,
                               !.tk.rsize = LiveCount(c.rem),
                               !.tk.rleft = LiveCount(c.rem)], prov)
            ELSE LET u == Head(T.todo)
                     skip == [c EXCEPT !.tk.todo = Tail(@)]
                 IN IF ~c.st[u].subscribed THEN Run(skip, prov)
                    ELSE IF _in_quiet(T.now, T.quiet) THEN Run(skip, prov)
                    ELSE IF _should_auto_unsubscribe(c.st[u], T.now)
                         THEN Run([skip EXCEPT !.st[u].subscribed = FALSE,
                                               !.tr.unsub = @ \cup {u}], prov)
                         ELSE Run([c EXCEPT !.tk.stage = "idle"], prov)
      [] T.stage \in {"idle", "daily1", "daily2"} ->
            LET u == Head(T.todo) IN
            IF StageFires(c.st[u], T)
            THEN IF prov
                 THEN [c EXCEPT !.tk.pc = "chat",
                                !.tr.calls = Append(@, <<u, T.stage>>)]
                 ELSE Run([c EXCEPT
                             !.st[u].consecutive_no_reply_count = @ + 1,
                             !.tr.calls = Append(@, <<u, T.stage>>),
                             !.tk = AfterStage(T)], prov)
            ELSE Run([c EXCEPT !.tk = AfterStage(T)], prov)
      [] T.stage = "remind" ->
            IF LiveCount(c.rem) # T.rsize
            THEN [c EXCEPT !.tk = [TkSleep EXCEPT !.pc = "dead"]]
            ELSE LET j == NextLive(c.rem, T.ri) IN
                 IF j = 0
                 THEN LET R == PopFired(c.rem, T.fired_ids)
                      IN [c EXCEPT !.rem = R,
                                   !.rdoc = IF T.fired_ids # <<>>
                                            THEN _save_reminders(R) ELSE @,
                                   !.sdoc = _save_states(c.st),
                                   !.tk = [TkSleep EXCEPT !.pc = "done"]]
                 ELSE IF T.rleft = 0
                 THEN [c EXCEPT !.tk = [TkSleep EXCEPT !.pc = "dead"]]
                 ELSE LET n == [c EXCEPT !.tk.ri = j + 1, !.tk.rleft = @ - 1]
                      IN IF ReminderDue(c.rem[j], T.now)
                         THEN [n EXCEPT !.tk.pc = "rsend", !.tk.r = c.rem[j]]
                         ELSE Run(n, prov)

Ctx == [st |-> states, sdoc |-> stateDoc, rem |-> reminders,
        rdoc |-> remindDoc, tk |-> tk, tr |-> trace]

NewTrace == [now |-> clock, calls |-> <<>>, unsub |-> {}]

\* the variables after the tick has run to c
Land(c) ==
    /\ states' = c.st
    /\ stateDoc' = c.sdoc
    /\ reminders' = c.rem
    /\ remindDoc' = c.rdoc
    /\ trace' = c.tr
    /\ \A u \in DOMAIN c.st : c.st[u].consecutive_no_reply_count <= MaxNoReply
    /\ IF c.tk.pc = "done"
       THEN tk' = TkSleep /\ wakeAt' = clock + SleepSeconds
       ELSE tk' = c.tk /\ UNCHANGED wakeAt

\* mutant: _tick does not look at enable
TickStartIgnoresEnable ==
    /\ tk.pc = "sleep"
    /\ clock >= wakeAt
    /\ \E prov \in BOOLEAN :
          LET t1 == _parse_hhmm(cfg.time1)
              t2 == EffectiveT2(t1, _parse_hhmm(cfg.time2))
              T0 == [TkSleep EXCEPT !.pc = "run", !.now = clock,
                        !.quiet = cfg.quiet_hours, !.t1 = t1, !.t2 = t2,
                        !.todo = umos, !.stage = "begin"]
          IN Land(Run([Ctx EXCEPT !.tk = T0, !.tr = NewTrace], prov))
    /\ UNCHANGED <<clock, cfg, umos, sent>>

\* the scheduler wakes from sleep(30) and _tick runs to its first await
TickStart ==
    /\ tk.pc = "sleep"
    /\ clock >= wakeAt
    /\ IF ~cfg.enable
       THEN /\ wakeAt' = clock + SleepSeconds
            /\ trace' = NewTrace
            /\ UNCHANGED <<states, stateDoc, reminders, remindDoc, tk>>
       ELSE \E prov \in BOOLEAN :
              LET t1 == _parse_hhmm(cfg.time1)
                  t2 == EffectiveT2(t1, _parse_hhmm(cfg.time2))
                  T0 == [TkSleep EXCEPT !.pc = "run", !.now = clock,
                            !.quiet = cfg.quiet_hours, !.t1 = t1, !.t2 = t2,
                            !.todo = umos, !.stage = "begin"]
              IN Land(Run([Ctx EXCEPT !.tk = T0, !.tr = NewTrace], prov))
    /\ UNCHANGED <<clock, cfg, umos, sent>>

\* what provider.text_chat gives: a text, a blank text, or an exception
ChatOutcomes == {"hello", " ", "error"}

\* text.strip()
Strip(text) == IF text = " " THEN "" ELSE text

\* mutant: the tag is set after a failed attempt too
AttemptFailedSetsTag(c) ==
    LET u == Head(c.tk.todo) IN
    [c EXCEPT !.st[u].consecutive_no_reply_count = @ + 1,
              !.st[u].last_fired_tag = StageTag(c.tk),
              !.tk = AfterStage(c.tk)]

\* mutant: a failed attempt ends the subscription
AttemptFailedUnsubscribes(c) ==
    LET u == Head(c.tk.todo) IN
    [c EXCEPT !.st[u].consecutive_no_reply_count = @ + 1,
              !.st[u].subscribed = FALSE,
              !.tk = AfterStage(c.tk)]

\* the failure branch of _tick: the attempt returned False
AttemptFailed(c) ==
    LET u == Head(c.tk.todo) IN
    [c EXCEPT !.st[u].consecutive_no_reply_count = @ + 1,
              !.tk = AfterStage(c.tk)]

\* _proactive_reply resumes from provider.text_chat
ChatReturn ==
    /\ tk.pc = "chat"
    /\ \E out \in ChatOutcomes, prov \in BOOLEAN :
          IF out = "error" \/ Strip(out) = ""
          THEN Land(Run(AttemptFailed(Ctx), prov))
          ELSE Land([Ctx EXCEPT !.tk.pc = "send", !.tk.text = out])
    /\ UNCHANGED <<clock, cfg, umos, sent>>

\* the message the host delivers, with the tick that sent it (now) and, for a
\* reminder, its id and time
ReplyMsg(T) ==
    [umo |-> Head(T.todo), kind |-> T.stage, text |-> T.text, rid |-> NoStr,
     at |-> NoStr, now |-> T.now]

\* mutant: last_ts is left as it was
AttemptSucceededNoTs(c) ==
    LET u == Head(c.tk.todo)
        S == [c.st EXCEPT
                ![u].history = HistAppend(@, [role |-> "assistant",
                                              content |-> c.tk.text]),
                ![u].last_fired_tag = StageTag(c.tk)]
    IN [c EXCEPT !.st = S,
                 !.sdoc = _save_states([c.st EXCEPT
                            ![u].history = HistAppend(@, [role |-> "assistant",
                                                  content |-> c.tk.text])]),
                 !.tk = [AfterStage(c.tk) EXCEPT !.text = ""]]

\* _proactive_reply after _send_text: last_ts, history, save, return True;
\* then _tick sets last_fired_tag
AttemptSucceeded(c) ==
    LET u == Head(c.tk.todo)
        S == [c.st EXCEPT
                ![u].last_ts = clock,
                ![u].history = HistAppend(@, [role |-> "assistant",
                                              content |-> c.tk.text]),
                ![u].last_fired_tag = StageTag(c.tk)]
    IN [c EXCEPT !.st = S,
                 !.sdoc = _save_states([c.st EXCEPT
                            ![u].last_ts = clock,
                            ![u].history = HistAppend(@, [role |-> "assistant",
                                                  content |-> c.tk.text])]),
                 !.tk = [AfterStage(c.tk) EXCEPT !.text = ""]]

\* _send_text in _proactive_reply resumes from context.send_message, which
\* delivered the message (ok) or raised (caught and logged by _send_text)
SendReturn ==
    /\ tk.pc = "send"
    /\ \E ok \in BOOLEAN, prov \in BOOLEAN :
          /\ sent' = IF ok THEN sent (+) SetToBag({ReplyMsg(tk)}) ELSE sent
          /\ Land(Run([AttemptSucceeded(Ctx) EXCEPT !.tk.pc = "run"], prov))
    /\ UNCHANGED <<clock, cfg, umos>>

RemindMsg(T) ==
    [umo |-> T.r.umo, kind |-> "remind", text |-> T.r.content, rid |-> T.r.id,
     at |-> T.r.at, now |-> T.now]

\* _send_text in _check_reminders resumes from context.send_message
RemindSendReturn ==
    /\ tk.pc = "rsend"
    /\ \E ok \in BOOLEAN :
          /\ sent' = IF ok THEN sent (+) SetToBag({RemindMsg(tk)}) ELSE sent
          /\ Land(Run([Ctx EXCEPT
                        !.tk.pc = "run", !.tk.r = Tomb,
                        !.tk.fired_ids = IF tk.r.at.daily THEN @
                                         ELSE Append(@, tk.r.id)], FALSE))
    /\ UNCHANGED <<clock, cfg, umos>>

-----------------------------------------------------------------------------
(* Handlers of inbound messages and commands: none of them awaits before   *)
(* its last state change, so each is one step.                             *)

Contents == {"", "hi"}

CreateOrder(u) == IF u \in DOMAIN states THEN umos ELSE Append(umos, u)

\* mutant: the handler subscribes the session whatever the mode
OnAnyMessageSubscribes(u, content) ==
    LET S0 == GetOrCreate(states, u)
        S1 == [S0 EXCEPT
                 ![u].last_ts = clock,
                 ![u].last_user_reply_ts = clock,
                 ![u].consecutive_no_reply_count = 0,
                 ![u].subscribed = TRUE,
                 ![u].history =
                     IF content # ""
                     THEN HistAppend(@, [role |-> "user", content |-> content])
                     ELSE @]
    IN /\ states' = S1
       /\ umos' = CreateOrder(u)
       /\ stateDoc' = _save_states(S1)
       /\ UNCHANGED <<clock, cfg, reminders, remindDoc, tk, wakeAt, sent,
                   trace>>

\* _on_any_message
OnAnyMessage(u, content) ==
    LET S0 == GetOrCreate(states, u)
        S1 == [S0 EXCEPT
                 ![u].last_ts = clock,
                 ![u].last_user_reply_ts = clock,
                 ![u].consecutive_no_reply_count = 0,
                 ![u].subscribed =
                     IF cfg.subscribe_mode = "auto" THEN TRUE ELSE @,
                 ![u].history =
                     IF content # ""
                     THEN HistAppend(@, [role |-> "user", content |-> content])
                     ELSE @]
    IN /\ states' = S1
       /\ umos' = CreateOrder(u)
       /\ stateDoc' = _save_states(S1)
       /\ UNCHANGED <<clock, cfg, reminders, remindDoc, tk, wakeAt, sent,
                   trace>>

\* the session's history has room, within the bound of the model, for content
HistoryRoom(u, content) ==
    IF content # "" /\ u \in DOMAIN states
    THEN Len(states[u].history) < MaxHistory ELSE TRUE

\* /aireplay on, /aireplay off
CmdEnable(b) ==
    /\ cfg' = [cfg EXCEPT !.enable = b]
    /\ UNCHANGED <<clock, states, umos, stateDoc, reminders, remindDoc, tk,
                   wakeAt, sent, trace>>

\* /aireplay watch, /aireplay unwatch
CmdWatch(u, b) ==
    LET S1 == [GetOrCreate(states, u) EXCEPT ![u].subscribed = b]
    IN /\ states' = S1
       /\ umos' = CreateOrder(u)
       /\ stateDoc' = _save_states(S1)
       /\ UNCHANGED <<clock, cfg, reminders, remindDoc, tk, wakeAt, sent,
                   trace>>

\* position of the entry with this id, 0 if none
RECURSIVE SlotOf(_, _, _)
SlotOf(R, rid, i) ==
    IF i > Len(R) THEN 0
    ELSE IF R[i] # Tomb /\ R[i].id = rid THEN i ELSE SlotOf(R, rid, i + 1)

\* rid = f"R{int(datetime.now().timestamp())}"
NewRid == <<"R", clock>>

\* self._reminders[rid] = Reminder(...)
StoreReminder(R, r) ==
    LET i == SlotOf(R, r.id, 1)
    IN IF i = 0 THEN Append(R, r) ELSE [R EXCEPT ![i] = r]

\* /aireplay remind add <date time> <content>, ... <HH:MM> <content> daily
CmdRemindAdd(u, at) ==
    LET r == [id |-> NewRid, umo |-> u, content |-> "memo", at |-> at,
              created_at |-> clock]
        R == StoreReminder(reminders, r)
    IN /\ Len(R) <= MaxSlots
       /\ reminders' = R
       /\ remindDoc' = _save_reminders(R)
       /\ UNCHANGED <<clock, cfg, states, umos, stateDoc, tk, wakeAt, sent,
                   trace>>

\* mutant: the owner of the reminder is not compared
CmdRemindDelAnyOwner(u, rid) ==
    LET i == SlotOf(reminders, rid, 1)
    IN /\ IF i # 0
          THEN /\ reminders' = [reminders EXCEPT ![i] = Tomb]
               /\ remindDoc' = _save_reminders(reminders')
          ELSE UNCHANGED <<reminders, remindDoc>>
       /\ UNCHANGED <<clock, cfg, states, umos, stateDoc, tk, wakeAt, sent,
                      trace>>

\* /aireplay remind del <id>
CmdRemindDel(u, rid) ==
    LET i == SlotOf(reminders, rid, 1)
    IN /\ IF i # 0 /\ reminders[i].umo = u
          THEN /\ reminders' = [reminders EXCEPT ![i] = Tomb]
               /\ remindDoc' = _save_reminders(reminders')
          ELSE UNCHANGED <<reminders, remindDoc>>
       /\ UNCHANGED <<clock, cfg, states, umos, stateDoc, tk, wakeAt, sent,
                   trace>>

-----------------------------------------------------------------------------
(* The clock *)

Offset(ts) == (ts - StartClock) % SecPerDay
Jumps(ts) == (ts - StartClock) \div SecPerDay

\* the scheduler is due: its sleep is over and the tick has not started
TickDue == tk.pc = "sleep" /\ clock >= wakeAt

\* time passes; a tick that is due runs first
AdvanceClock ==
    /\ ~TickDue
    /\ Offset(clock) + ClockStep <= MaxTicks * ClockStep
    /\ clock' = clock + ClockStep
    /\ UNCHANGED <<cfg, states, umos, stateDoc, reminders, remindDoc, tk, wakeAt,
                   sent, trace>>

\* a whole day passes while every tick of that day does nothing: the plugin
\* is disabled
JumpDay ==
    /\ ~cfg.enable
    /\ tk.pc \in {"sleep", "dead"}
    /\ Jumps(clock) < MaxDayJumps
    /\ clock' = clock + SecPerDay
    /\ UNCHANGED <<cfg, states, umos, stateDoc, reminders, remindDoc, tk, wakeAt,
                   sent, trace>>

-----------------------------------------------------------------------------
(* Configuration, initial state, specification *)

\* daily.time1 and daily.time2: unset, or both 00:00 (time2 is then nudged)
DailyStrs == {<<NoStr, NoStr>>, <<<<0, 0>>, <<0, 0>>>>}
\* quiet_hours: unset, "00:01-00:01", "23:59-00:00" (wraps past midnight)
QuietStrs == {NoStr, <<<<0, 1>>, <<0, 1>>>>, <<<<23, 59>>, <<0, 0>>>>}

Config(mode, idle, daily, quiet, days) ==
    [enable |-> TRUE, subscribe_mode |-> mode, after_last_msg_minutes |-> idle,
     time1 |-> daily[1], time2 |-> daily[2], quiet_hours |-> quiet,
     max_no_reply_days |-> days]

\* the triggers and quiet hours, without auto-unsubscribe
Configs ==
    {Config(mode, idle, daily, quiet, 0) :
        mode \in {"manual", "auto"}, idle \in {0, 1}, daily \in DailyStrs,
        quiet \in QuietStrs}

\* auto-unsubscribe after 1 or 2 days
DayConfigs ==
    {Config("manual", 1, <<NoStr, NoStr>>, NoStr, days) : days \in {1, 2}}

ReminderTimes ==
    [daily : {TRUE}, date : {0}, hm : {<<0, 0>>}]
    \cup [daily : {FALSE}, date : {1}, hm : {<<0, 0>>}]

\* __init__: no state.json, no reminders.json; the scheduler task starts
InitStores ==
    /\ states = NoStates
    /\ umos = <<>>
    /\ stateDoc = NoStates
    /\ reminders = <<>>
    /\ remindDoc = <<>>
    /\ tk = TkSleep
    /\ wakeAt = StartClock + SleepSeconds
    /\ sent = EmptyBag
    /\ trace = [now |-> 0, calls |-> <<>>, unsub |-> {}]

Init == clock = StartClock /\ cfg \in Configs /\ InitStores

\* one session talks to the plugin during the minutes around midnight
Next ==
    \/ TickStart
    \/ ChatReturn
    \/ SendReturn
    \/ \E content \in Contents :
          HistoryRoom("s1", content) /\ OnAnyMessage("s1", content)
    \/ \E b \in BOOLEAN : CmdWatch("s1", b)
    \/ AdvanceClock

Spec == Init /\ [][Next]_vars

\* the same over several days, with auto-unsubscribe configured
InitDays == clock = StartClock /\ cfg \in DayConfigs /\ InitStores

NextDays ==
    \/ TickStart
    \/ ChatReturn
    \/ SendReturn
    \/ \E content \in Contents :
          HistoryRoom("s1", content) /\ OnAnyMessage("s1", content)
    \/ \E b \in BOOLEAN : CmdWatch("s1", b)
    \/ \E b \in BOOLEAN : CmdEnable(b)
    \/ AdvanceClock
    \/ JumpDay

SpecDays == InitDays /\ [][NextDays]_vars

\* one user manages reminders, another may try to delete them; nobody chats
RemindConfig == Config("manual", 0, <<NoStr, NoStr>>, NoStr, 0)

InitRemind == clock = StartClock /\ cfg = RemindConfig /\ InitStores

NextRemind ==
    \/ TickStart
    \/ RemindSendReturn
    \/ \E b \in BOOLEAN : CmdEnable(b)
    \/ \E at \in ReminderTimes : CmdRemindAdd("s1", at)
    \/ \E u \in Sessions, i \in 1..MaxSlots :
          i <= Len(reminders) /\ reminders[i] # Tomb
          /\ CmdRemindDel(u, reminders[i].id)
    \/ AdvanceClock
    \/ JumpDay

SpecRemind == InitRemind /\ [][NextRemind]_vars

(* Long histories: the plugin starts from a state.json whose history is    *)
(* near or over the capacity (the file can come from another version or be *)
(* edited), messages and idle replies append to it, and the plugin is      *)
(* stopped and started again.                                              *)

HistConfig == Config("auto", 1, <<NoStr, NoStr>>, NoStr, 0)

\* a stored history of n entries, numbered from the oldest
StoredHistory(n) ==
    [i \in 1..n |->
        [role |-> IF i % 2 = 1 THEN "user" ELSE "assistant",
         content |-> ToString(i)]]

\* a stored session record with a history of n entries
StoredRecord(n) ==
    [SessionState EXCEPT !.last_ts = StartClock - SecPerMin,
                         !.last_user_reply_ts = StartClock - SecPerMin,
                         !.subscribed = TRUE,
                         !.last_fired_tag = <<"idle", 0, 23, 58>>,
                         !.consecutive_no_reply_count = 1,
                         !.history = StoredHistory(n)]

\* the keys of a stored session record
Keys == DOMAIN SessionState

\* stored records that lack keys: one key, or all of them
PartialRecords ==
    {[k \in Keys \ {m} |-> StoredRecord(HistCap)[k]] : m \in Keys}
    \cup {[k \in {} |-> 0]}

\* the state documents the plugin starts from
HistDocs ==
    {[u \in {"s1"} |-> StoredRecord(n)] :
        n \in (HistCap - 1)..(HistCap + MaxOver)}
    \cup {[u \in {"s1"} |-> r] : r \in PartialRecords}

\* terminate of a deactivated plugin (the loop task is cancelled, states and
\* reminders are saved), then __init__ (documents loaded, loop started)
Restart ==
    /\ stateDoc' = _save_states(states)
    /\ states' = _load_states(stateDoc')
    /\ remindDoc' = _save_reminders(reminders)
    /\ reminders' = remindDoc'
    /\ tk' = TkSleep
    /\ wakeAt' = clock + SleepSeconds
    /\ UNCHANGED <<clock, cfg, umos, sent, trace>>

\* the inbound messages in the history are fewer than the bound of the model
AppendRoom(u, content) ==
    IF content # ""
    THEN Len(SelectSeq(states[u].history,
                       LAMBDA e : e.content = content)) < MaxAppends
    ELSE TRUE

InitHist ==
    /\ clock = StartClock
    /\ cfg = HistConfig
    /\ \E d \in HistDocs : stateDoc = d /\ states = _load_states(d)
    /\ umos = <<"s1">>
    /\ reminders = <<>>
    /\ remindDoc = <<>>
    /\ tk = TkSleep
    /\ wakeAt = StartClock + SleepSeconds
    /\ sent = EmptyBag
    /\ trace = [now |-> 0, calls |-> <<>>, unsub |-> {}]

NextHist ==
    \/ TickStart
    \/ ChatReturn
    \/ SendReturn
    \/ \E content \in Contents :
          AppendRoom("s1", content) /\ OnAnyMessage("s1", content)
    \/ Restart
    \/ AdvanceClock

SpecHist == InitHist /\ [][NextHist]_vars

(* Enabling and disabling: the plugin starts from documents that hold a    *)
(* subscribed session whose idle time has passed and two reminders of      *)
(* midnight, and /aireplay on and off interleave with the ticks.           *)

\* _load_reminders: self._reminders[r.id] = r for each item of the array
RECURSIVE LoadReminders(_, _)
LoadReminders(arr, acc) ==
    IF arr = <<>> THEN acc
    ELSE LoadReminders(Tail(arr), StoreReminder(acc, Head(arr)))

_load_reminders(arr) == LoadReminders(arr, <<>>)

OffStateDoc ==
    [u \in {"s1"} |->
        [SessionState EXCEPT !.last_ts = StartClock - SecPerMin,
                             !.last_user_reply_ts = StartClock - SecPerMin,
                             !.subscribed = TRUE]]

OffRemindDoc ==
    << [id |-> <<"R", 1>>, umo |-> "s2", content |-> "memo",
        at |-> [daily |-> TRUE, date |-> 0, hm |-> <<0, 0>>], created_at |-> 1],
       [id |-> <<"R", 2>>, umo |-> "s1", content |-> "memo",
        at |-> [daily |-> FALSE, date |-> 1, hm |-> <<0, 0>>],
        created_at |-> 2] >>

\* the ids typed in remind del: the two stored ones and one never given
RidArgs == {<<"R", 1>>, <<"R", 2>>, <<"R", 3>>}

InitOff ==
    /\ clock = StartClock
    /\ \E b \in BOOLEAN :
          cfg = [Config("manual", 1, <<NoStr, NoStr>>, NoStr, 0)
                    EXCEPT !.enable = b]
    /\ stateDoc = OffStateDoc
    /\ states = _load_states(OffStateDoc)
    /\ umos = <<"s1">>
    /\ remindDoc = OffRemindDoc
    /\ reminders = _load_reminders(OffRemindDoc)
    /\ tk = TkSleep
    /\ wakeAt = StartClock + SleepSeconds
    /\ sent = EmptyBag
    /\ trace = [now |-> 0, calls |-> <<>>, unsub |-> {}]

NextOff ==
    \/ TickStart
    \/ ChatReturn
    \/ SendReturn
    \/ RemindSendReturn
    \/ \E b \in BOOLEAN : CmdEnable(b)
    \/ \E u \in Sessions, rid \in RidArgs : CmdRemindDel(u, rid)
    \/ AdvanceClock

SpecOff == InitOff /\ [][NextOff]_vars

(* Quiet hours over the day: the plugin starts from a document with a      *)
(* subscribed session whose idle time has passed, and the scheduler's      *)
(* sleep ends at one of several times of day, under several windows.       *)

\* times of day 1: 05:00, 06:00, 06:00:30, 12:00, 21:59:30, 22:00, 23:30
QuietClocks ==
    {SecPerDay + h[1] * SecPerHour + h[2] * SecPerMin + h[3] :
        h \in {<<5, 0, 0>>, <<6, 0, 0>>, <<6, 0, 30>>, <<12, 0, 0>>,
                <<21, 59, 30>>, <<22, 0, 0>>, <<23, 30, 0>>}}

\* quiet_hours: "", "22:00", "22:00-06:00", "06:00-22:00", "25:99-06:00",
\* "12:00-12:00"
QuietArgs ==
    {NoStr, << <<22, 0>> >>, << <<22, 0>>, <<6, 0>> >>,
     << <<6, 0>>, <<22, 0>> >>, << <<25, 99>>, <<6, 0>> >>,
     << <<12, 0>>, <<12, 0>> >>}

InitQuiet ==
    /\ clock \in QuietClocks
    /\ \E q \in QuietArgs, idle \in {1, 2} :
          cfg = Config("manual", idle, <<NoStr, NoStr>>, q, 0)
    /\ stateDoc = OffStateDoc
    /\ states = _load_states(OffStateDoc)
    /\ umos = <<"s1">>
    /\ reminders = <<>>
    /\ remindDoc = <<>>
    /\ tk = TkSleep
    /\ wakeAt = clock
    /\ sent = EmptyBag
    /\ trace = [now |-> 0, calls |-> <<>>, unsub |-> {}]

NextQuiet ==
    \/ TickStart
    \/ ChatReturn
    \/ SendReturn

SpecQuiet == InitQuiet /\ [][NextQuiet]_vars

(* The conversation history of the host.  A text is the sequence of its    *)
(* characters.  The history is a list of items or one dict; an item is a   *)
(* dict with the keys role and content ("" for a key that is absent or     *)
(* empty) or a bare string.                                                *)

RECURSIVE LStrip(_)
LStrip(t) == IF t # <<>> /\ Head(t) = " " THEN LStrip(Tail(t)) ELSE t

RECURSIVE RStrip(_)
RStrip(t) ==
    IF t # <<>> /\ t[Len(t)] = " " THEN RStrip(SubSeq(t, 1, Len(t) - 1))
    ELSE t

\* str.strip()
StripText(t) == RStrip(LStrip(t))

\* str.lower() of the roles used
Lower(r) == CASE r = "AI" -> "ai" [] r = "Bot" -> "bot" [] OTHER -> r

\* normalize_role: the mapping, or the lowered value itself
normalize_role(r) ==
    LET v == Lower(r)
    IN CASE v \in {"assistant", "bot", "ai", "model"} -> "assistant"
         [] v = "system" -> "system"
         [] v \in {"user", "human"} -> "user"
         [] OTHER -> v

\* mutant: a role outside the three is returned as it is
_normalize_history_item_any_role(item) ==
    LET role0 == IF "str" \in DOMAIN item THEN "user"
                 ELSE normalize_role(item.role)
        content == StripText(IF "str" \in DOMAIN item THEN item.str
                             ELSE StripText(item.content))
        role1 == IF role0 = "" THEN "user" ELSE role0
    IN IF content = <<>> THEN <<>>
       ELSE << [role |-> role1, content |-> content] >>

\* _normalize_history_item: <<>> for None, else the one normalized item
_normalize_history_item(item) ==
    LET role0 == IF "str" \in DOMAIN item THEN "user"
                 ELSE normalize_role(item.role)
        content == StripText(IF "str" \in DOMAIN item THEN item.str
                             ELSE StripText(item.content))
        role1 == IF role0 = "" THEN "user" ELSE role0
    IN IF content = <<>> THEN <<>>
       ELSE << [role |-> IF role1 \in {"user", "assistant", "system"}
                         THEN role1 ELSE "user",
                content |-> content] >>

RECURSIVE NormalizeItems(_)
NormalizeItems(items) ==
    IF items = <<>> THEN <<>>
    ELSE _normalize_history_item(Head(items)) \o NormalizeItems(Tail(items))

\* _normalize_history
_normalize_history(raw) ==
    CASE raw.kind = "list" -> NormalizeItems(raw.items)
      [] raw.kind = "dict" -> _normalize_history_item(raw.item)
      [] OTHER -> <<>>

\* contexts[-n:]
LastN(seq, n) ==
    IF Len(seq) <= n THEN seq ELSE SubSeq(seq, Len(seq) - n + 1, Len(seq))

\* _collect_contexts: the normalized history of the conversation, else the
\* history of the session, cut to the last hist_n entries
_collect_contexts(raw, st, hist_n) ==
    LET c0 == _normalize_history(raw)
        c1 == IF c0 = <<>> /\ hist_n > 0 THEN st.history ELSE c0
    IN IF hist_n > 0 /\ c1 # <<>> THEN LastN(c1, hist_n) ELSE c1

\* the texts "", " ", "h", " h "
TextArgs == {<<>>, <<" ">>, <<"h">>, <<" ", "h", " ">>}

\* the items of a history
ItemArgs ==
    [role : {"", "user", "system", "AI", "tool"}, content : TextArgs]
    \cup [str : {<<" ">>, <<"h", " ">>}]

\* the histories the host returns
RawArgs ==
    {[kind |-> "list", items |-> <<>>]}
    \cup {[kind |-> "dict", item |-> i] : i \in [role : {"tool", "Bot"},
                                                 content : TextArgs]}
    \cup UNION {{[kind |-> "list", items |-> l] : l \in [1..n -> ItemArgs]} :
                    n \in 1..MaxItems}

\* _proactive_reply resumes from conv_mgr.get_conversation and collects the
\* contexts
ConversationReturn ==
    /\ tk.pc = "chat"
    /\ tk.raw = NoRaw
    /\ \E raw \in RawArgs :
          tk' = [tk EXCEPT
                  !.raw = raw,
                  !.contexts = _collect_contexts(raw, states[Head(tk.todo)],
                                                 HistoryDepth)]
    /\ UNCHANGED <<clock, cfg, states, umos, stateDoc, reminders, remindDoc,
                   wakeAt, sent, trace>>

InitNorm ==
    /\ clock = StartClock
    /\ cfg = Config("manual", 1, <<NoStr, NoStr>>, NoStr, 0)
    /\ stateDoc = OffStateDoc
    /\ states = _load_states(OffStateDoc)
    /\ umos = <<"s1">>
    /\ reminders = <<>>
    /\ remindDoc = <<>>
    /\ tk = TkSleep
    /\ wakeAt = StartClock
    /\ sent = EmptyBag
    /\ trace = [now |-> 0, calls |-> <<>>, unsub |-> {}]

NextNorm ==
    \/ TickStart
    \/ ConversationReturn
    \/ ChatReturn
    \/ SendReturn

SpecNorm == InitNorm /\ [][NextNorm]_vars

(* Times given to commands: /aireplay set daily1, set daily2, set quiet    *)
(* and remind add take the time the regular expression of the command      *)
(* finds in the text.                                                      *)

\* \d{1,2}:\d{2} at the place of the time: one or two digits, a colon, two
\* digits
MatchesTime(s) == s[1] \in 0..99 /\ s[2] \in 0..99

\* the times typed: "00:01", "25:99", "100:00"
TimeArgs == {<<0, 1>>, <<25, 99>>, <<100, 0>>}

\* /aireplay set daily1 <HH:MM>, /aireplay set daily2 <HH:MM>; a text the
\* expression does not match reaches the usage reply
CmdSetDaily(slot, s) ==
    /\ IF MatchesTime(s)
       THEN cfg' = IF slot = 1 THEN [cfg EXCEPT !.time1 = s]
                   ELSE [cfg EXCEPT !.time2 = s]
       ELSE UNCHANGED cfg
    /\ UNCHANGED <<clock, states, umos, stateDoc, reminders, remindDoc, tk,
                   wakeAt, sent, trace>>

\* /aireplay set quiet <HH:MM>-<HH:MM>
CmdSetQuiet(a, b) ==
    /\ IF MatchesTime(a) /\ MatchesTime(b)
       THEN cfg' = [cfg EXCEPT !.quiet_hours = <<a, b>>]
       ELSE UNCHANGED cfg
    /\ UNCHANGED <<clock, states, umos, stateDoc, reminders, remindDoc, tk,
                   wakeAt, sent, trace>>

\* /aireplay remind add with the text typed: neither expression matches a
\* time of three digits and the usage reply is given
CmdRemindAddText(u, at) ==
    IF MatchesTime(at.hm) THEN CmdRemindAdd(u, at) ELSE UNCHANGED vars

\* the reminder times typed: "00:01 memo daily", "25:99 memo daily",
\* "<day 1> 25:99 memo", "100:00 memo daily"
RemindArgs ==
    {[daily |-> TRUE, date |-> 0, hm |-> <<0, 1>>],
     [daily |-> TRUE, date |-> 0, hm |-> <<25, 99>>],
     [daily |-> FALSE, date |-> 1, hm |-> <<25, 99>>],
     [daily |-> TRUE, date |-> 0, hm |-> <<100, 0>>]}

InitSet == clock = StartClock /\ cfg = RemindConfig /\ InitStores

NextSet ==
    \/ TickStart
    \/ RemindSendReturn
    \/ \E slot \in {1, 2}, s \in TimeArgs : CmdSetDaily(slot, s)
    \/ \E a \in TimeArgs, b \in TimeArgs : CmdSetQuiet(a, b)
    \/ \E at \in RemindArgs : CmdRemindAddText("s1", at)
    \/ AdvanceClock

SpecSet == InitSet /\ [][NextSet]_vars

-----------------------------------------------------------------------------
(* Properties *)

Range(f) == {f[i] : i \in DOMAIN f}

\* this step is the scheduler waking up and starting a tick
TickStep == tk.pc = "sleep" /\ (tk' # tk \/ wakeAt' # wakeAt)

\* this step is the end of a tick, by its last statement or by an exception
TickEnds ==
    /\ tk'.pc \in {"sleep", "dead"}
    /\ IF tk.pc = "sleep" THEN wakeAt' # wakeAt ELSE tk.pc # "dead"

\* "<kind>@YYYY-MM-DD HH:MM" of the minute of ts
MinuteTag(kind, ts) ==
    <<kind, ts \div 86400, (ts % 86400) \div 3600, (ts % 3600) \div 60>>

Subscribed(u) == u \in DOMAIN states /\ states[u].subscribed

\* C1: a tick that finds last_fired_tag equal to the idle tag of its minute
\* makes no idle attempt; an enabled tick outside quiet hours that finds the
\* session subscribed, not auto-unsubscribed, idle for at least the threshold
\* and last_fired_tag different from the idle tag of its minute makes one.
C1_IdleDedup ==
    [][TickStep /\ "s1" \in DOMAIN states =>
        /\ states["s1"].last_fired_tag = MinuteTag("idle", clock)
             => <<"s1", "idle">> \notin Range(trace'.calls)
        /\ ( /\ cfg.enable /\ states["s1"].subscribed
             /\ ~_in_quiet(clock, cfg.quiet_hours)
             /\ "s1" \notin trace'.unsub
             /\ cfg.after_last_msg_minutes > 0
             /\ states["s1"].last_ts > 0
             /\ clock - states["s1"].last_ts
                    >= cfg.after_last_msg_minutes * 60
             /\ states["s1"].last_fired_tag # MinuteTag("idle", clock) )
             => <<"s1", "idle">> \in Range(trace'.calls)
      ]_vars

\* the latest tick ran in the minute of the idle tag that an earlier tick had
\* set, with the session subscribed, and called nothing
C1_Witness ==
    /\ tk.pc = "sleep" /\ cfg.enable /\ Subscribed("s1")
    /\ cfg.after_last_msg_minutes > 0
    /\ ~_in_quiet(trace.now, cfg.quiet_hours)
    /\ states["s1"].last_fired_tag = MinuteTag("idle", trace.now)
    /\ trace.calls = <<>>

\* the messages delivered to u as replies of this trigger on this date
Replies(u, kind, date) ==
    {m \in BagToSet(sent) :
        m.umo = u /\ m.kind = kind /\ m.now \div 86400 = date}

\* C2: for every session, daily slot and calendar date, at most one proactive
\* reply of that slot is delivered.
C2_DailyOncePerDate ==
    \A m \in BagToSet(sent) :
        m.kind \in {"daily1", "daily2"} =>
            /\ CopiesIn(m, sent) = 1
            /\ Replies(m.umo, m.kind, m.now \div 86400) = {m}

\* a daily reply was delivered and a later tick ran in the same minute with the
\* session still subscribed
C2_Witness ==
    /\ tk.pc = "sleep" /\ Subscribed("s1")
    /\ \E m \in BagToSet(sent) :
          /\ m.kind \in {"daily1", "daily2"}
          /\ trace.now > m.now
          /\ MinuteTag("", trace.now) = MinuteTag("", m.now)

\* the reminder messages delivered so far
Reminded == {m \in BagToSet(sent) : m.kind = "remind"}

\* C3: each daily reminder is delivered at most once per calendar day, also
\* when two ticks fall inside its hour:minute.
C3_DailyReminderOncePerDay ==
    \A m \in Reminded :
        m.at.daily =>
            /\ CopiesIn(m, sent) = 1
            /\ \A n \in Reminded :
                  (n.rid = m.rid /\ n.at = m.at /\ n.umo = m.umo
                   /\ n.now \div 86400 = m.now \div 86400) => n = m

\* the one-shot reminders this step delivers
DeliveredOnce ==
    {m \in BagToSet(sent') :
        /\ m.kind = "remind" /\ ~m.at.daily
        /\ CopiesIn(m, sent') > CopiesIn(m, sent)}

\* the one-shot reminders the tick that ends with this step has delivered
TickDeliveredOnce ==
    {m \in BagToSet(sent') :
        m.kind = "remind" /\ ~m.at.daily /\ m.now = trace'.now}

\* C4: a one-shot reminder is delivered only by a tick whose date and
\* hour:minute are its stored time, and at most once; when that tick has ended
\* the reminder is neither in the reminder store nor in the reminder document.
C4_OneShotReminder ==
    [][ /\ \A m \in DeliveredOnce :
              /\ MinuteTag("", m.now) = <<"", m.at.date, m.at.hm[1], m.at.hm[2]>>
              /\ CopiesIn(m, sent') = 1
              /\ \A n \in Reminded : ~(n.rid = m.rid /\ n.at = m.at)
        /\ TickEnds =>
              \A m \in TickDeliveredOnce :
                  /\ \A i \in 1..Len(reminders') :
                        reminders'[i] # Tomb => reminders'[i].id # m.rid
                  /\ \A i \in 1..Len(remindDoc') : remindDoc'[i].id # m.rid
      ]_vars

\* C5: no exception raised in a tick ends the scheduler loop: after it the
\* loop sleeps and runs the next tick.
C5_LoopSurvivesTickException == tk.pc # "dead"

\* this step is the return of the host's send-message call of a proactive reply
ReplySendStep == tk.pc = "send" /\ tk' # tk

\* C6: when the host's send-message call throws during a proactive reply, the
\* attempt is not successful: last_fired_tag, last_ts and history of the
\* session stay as they were and the failure is counted.
C6_SendFailureNotSuccess ==
    [][ReplySendStep /\ sent' = sent =>
          LET u == Head(tk.todo) IN
          /\ states'[u].last_fired_tag = states[u].last_fired_tag
          /\ states'[u].last_ts = states[u].last_ts
          /\ states'[u].history = states[u].history
          /\ states'[u].consecutive_no_reply_count
               = states[u].consecutive_no_reply_count + 1
      ]_vars

\* C7: no proactive reply is delivered at a time inside the quiet-hours window.
C7_NoDeliveryInQuietHours ==
    [][ReplySendStep /\ sent' # sent => ~_in_quiet(clock, cfg.quiet_hours)]_vars

\* C8: in a tick outside quiet hours a subscribed session with threshold N > 0
\* and a known last_user_reply_ts is unsubscribed exactly when N whole days
\* have passed since that time, and then the tick makes no attempt for it.
C8_AutoUnsubscribe ==
    [][ ( /\ TickStep /\ cfg.enable /\ Subscribed("s1")
          /\ ~_in_quiet(clock, cfg.quiet_hours)
          /\ cfg.max_no_reply_days > 0
          /\ states["s1"].last_user_reply_ts > 0 )
        => LET late == clock - states["s1"].last_user_reply_ts
                          >= cfg.max_no_reply_days * 86400
           IN /\ states'["s1"].subscribed = ~late
              /\ ("s1" \in trace'.unsub) = late
              /\ late => trace'.calls = <<>> /\ tk'.pc = "sleep"
      ]_vars

\* a tick has unsubscribed the session exactly N days after its last reply,
\* with the idle threshold reached
C8_Witness ==
    /\ "s1" \in trace.unsub /\ ~Subscribed("s1")
    /\ cfg.max_no_reply_days > 0
    /\ trace.now - states["s1"].last_user_reply_ts
         = cfg.max_no_reply_days * 86400
    /\ cfg.after_last_msg_minutes > 0
    /\ trace.now - states["s1"].last_ts >= cfg.after_last_msg_minutes * 60

\* the daily slots of the configuration, none of which is the minute of ts
NoDailyAt(ts) ==
    LET hm == <<(ts % 86400) \div 3600, (ts % 3600) \div 60>>
        t1 == _parse_hhmm(cfg.time1)
        t2 == _parse_hhmm(cfg.time2)
    IN t1 # hm /\ t2 # hm /\ (t1 = t2 => hm # <<0, 1>>)

\* the number of messages in bag B delivered to u by the tick of now
DeliveredBy(B, u, now) ==
    LET M == {m \in BagToSet(B) : m.umo = u /\ m.now = now}
    IN IF M = {} THEN 0
       ELSE IF \E m \in M : M = {m} /\ CopiesIn(m, B) = 1 THEN 1 ELSE 2

\* C9: for a subscribed session, plugin enabled, outside quiet hours, idle
\* threshold reached and no daily slot matching, the tick calls the provider
\* for the idle trigger; when the provider gives a non-empty text and the
\* message is delivered, the tick has delivered exactly that one message,
\* last_fired_tag is the idle tag of the tick's minute, last_ts is the send
\* time and the newest history entry is the assistant's text.
C9_IdleFiring ==
    [][ /\ ( /\ TickStep /\ cfg.enable /\ Subscribed("s1")
              /\ ~_in_quiet(clock, cfg.quiet_hours)
              /\ cfg.max_no_reply_days = 0
              /\ cfg.after_last_msg_minutes > 0
              /\ states["s1"].last_ts > 0
              /\ clock - states["s1"].last_ts
                   >= cfg.after_last_msg_minutes * 60
              /\ states["s1"].last_fired_tag # MinuteTag("idle", clock)
              /\ NoDailyAt(clock) )
            => /\ trace'.calls = <<<<"s1", "idle">>>>
               /\ tk'.pc \in {"chat", "sleep"}
               /\ tk'.pc = "chat" => tk'.stage = "idle" /\ tk'.now = clock
        /\ ( /\ tk.pc = "chat" /\ tk'.pc = "send" /\ tk.stage = "idle" )
            => tk'.text \in {"hello"} /\ states' = states
        /\ ( /\ ReplySendStep /\ tk.stage = "idle" /\ sent' # sent
              /\ NoDailyAt(tk.now) )
            => LET st == states'["s1"] IN
               /\ Head(tk.todo) = "s1"
               /\ tk'.pc = "sleep"
               /\ DeliveredBy(sent, "s1", tk.now) = 0
               /\ DeliveredBy(sent', "s1", tk.now) = 1
               /\ \E m \in BagToSet(sent') :
                     m.now = tk.now /\ m.umo = "s1" /\ m.text = tk.text
               /\ st.last_fired_tag = MinuteTag("idle", tk.now)
               /\ st.last_ts = clock
               /\ st.history # <<>>
               /\ st.history[Len(st.history)]
                    = [role |-> "assistant", content |-> tk.text]
      ]_vars

\* the tick of trace.now has ended after its idle reply was delivered
C9_Witness ==
    /\ tk.pc = "sleep" /\ Subscribed("s1") /\ NoDailyAt(trace.now)
    /\ trace.calls = <<<<"s1", "idle">>>>
    /\ DeliveredBy(sent, "s1", trace.now) = 1
    /\ states["s1"].last_fired_tag = MinuteTag("idle", trace.now)
    /\ states["s1"].last_ts >= trace.now
    /\ states["s1"].history # <<>>
    /\ states["s1"].history[Len(states["s1"].history)].role = "assistant"

\* C10: every history holds at most 32 entries, also one loaded from the
\* state document; an append to a full history drops its oldest entry and
\* keeps the order of the others, an append to any other history only adds.
C10_HistoryBound ==
    [][\A u \in DOMAIN states' :
          LET h == states[u].history
              g == states'[u].history
          IN /\ Len(g) <= 32
             /\ u \in DOMAIN states =>
                   /\ Len(h) <= 32
                   /\ g # h =>
                         g = Append(IF Len(h) = 32 THEN Tail(h) ELSE h,
                                    g[Len(g)])
      ]_vars

\* the history loaded from a longer document was full, and an inbound message
\* has evicted its oldest entry
C10_Witness ==
    LET h == states["s1"].history
    IN /\ Len(h) = 32
       /\ h[32] = [role |-> "user", content |-> "hi"]
       /\ h[31].content = ToString(32 + MaxOver)
       /\ h[1].content = ToString(MaxOver + 2)

\* C11: a tick that runs while enable is false sends nothing, removes no
\* reminder and leaves the sessions and both documents as they were.
C11_DisabledTickDoesNothing ==
    [][TickStep /\ ~cfg.enable =>
          /\ sent' = sent
          /\ reminders' = reminders /\ remindDoc' = remindDoc
          /\ states' = states /\ stateDoc' = stateDoc
          /\ tk' = tk /\ trace'.calls = <<>>
      ]_vars

\* the tick of midnight ran disabled: nothing was ever sent although the idle
\* time of the session had passed and the one-shot reminder of that minute
\* was due, and the reminder is still stored
C11_Witness ==
    /\ ~cfg.enable /\ tk.pc = "sleep"
    /\ trace.now = clock /\ wakeAt = clock + 30
    /\ sent = EmptyBag
    /\ Subscribed("s1")
    /\ clock - states["s1"].last_ts >= cfg.after_last_msg_minutes * 60
    /\ \E i \in 1..Len(reminders) :
          /\ reminders[i] # Tomb /\ ~reminders[i].at.daily
          /\ MinuteTag("", clock)
               = <<"", reminders[i].at.date, reminders[i].at.hm[1],
                   reminders[i].at.hm[2]>>

\* an "HH:MM" with the hour in 0..23 and the minute in 0..59, or no time
WellFormed(s) == s = <<>> \/ (s[1] \in 0..23 /\ s[2] \in 0..59)

\* C12: a set daily1, set daily2, set quiet or remind add command with a
\* malformed time changes neither the configuration nor the reminder store:
\* starting from well-formed times, no malformed time is ever stored.
C12_MalformedTimeRejected ==
    /\ WellFormed(cfg.time1) /\ WellFormed(cfg.time2)
    /\ cfg.quiet_hours # <<>> =>
          WellFormed(cfg.quiet_hours[1]) /\ WellFormed(cfg.quiet_hours[2])
    /\ \A i \in 1..Len(reminders) :
          reminders[i] # Tomb => WellFormed(reminders[i].at.hm)

\* C13: a remind add gives the new reminder an id no stored reminder has: the
\* store grows by one and every reminder it held is still there, unchanged.
C13_RemindAddFreshId ==
    [][(\E at \in ReminderTimes : CmdRemindAdd("s1", at)) =>
          /\ LiveCount(reminders') = LiveCount(reminders) + 1
          /\ \A i \in 1..Len(reminders) : reminders'[i] = reminders[i]
      ]_vars

\* the stored reminders with this id
Stored(R, rid) == {i \in 1..Len(R) : R[i] # Tomb /\ R[i].id = rid}

\* C14: remind del <id> removes the reminder when the id is stored and its
\* owner is the session of the command, and nothing else; with an absent id or
\* another owner the store and its document stay as they were (a command that
\* changes the store had a stored id and came from its owner).
C14_RemindDelOwnerOnly ==
    [][\A u \in Sessions, rid \in RidArgs :
          (reminders' # reminders /\ CmdRemindDel(u, rid)) =>
              IF \E i \in Stored(reminders, rid) : reminders[i].umo = u
              THEN /\ Stored(reminders', rid) = {}
                   /\ \A i \in 1..Len(reminders) :
                         i \notin Stored(reminders, rid)
                             => reminders'[i] = reminders[i]
                   /\ \A k \in 1..Len(remindDoc') : remindDoc'[k].id # rid
                   /\ Len(remindDoc') = LiveCount(reminders) - 1
              ELSE FALSE
      ]_vars

\* before any tick has run the reminder of s2 has been deleted and the one of
\* s1 is still stored
C14_Witness ==
    /\ clock = StartClock /\ trace.now = 0
    /\ reminders[1] = Tomb
    /\ reminders[2] # Tomb /\ reminders[2].umo = "s1"
    /\ Len(remindDoc) = 1

\* C15: saving the session map and loading it again gives every session the
\* same six fields (the history with the same entries in the same order), and
\* a stored record that lacks keys loads with the defaults 0, empty, false and
\* "" for them and with the stored values for the others.
C15_SaveLoadRoundTrip ==
    /\ _load_states(_save_states(states)) = states
    /\ \A u \in DOMAIN stateDoc :
          LET r == stateDoc[u]
              defaults ==
                  [last_ts |-> 0, history |-> <<>>, subscribed |-> FALSE,
                   last_fired_tag |-> <<>>, last_user_reply_ts |-> 0,
                   consecutive_no_reply_count |-> 0]
          IN DOMAIN r # DOMAIN defaults =>
                \A k \in DOMAIN defaults :
                    states[u][k] = IF k \in DOMAIN r THEN r[k] ELSE defaults[k]

\* the session was loaded from a record without last_fired_tag whose history
\* was full
C15_Witness ==
    /\ DOMAIN stateDoc["s1"] = DOMAIN states["s1"] \ {"last_fired_tag"}
    /\ states["s1"].last_fired_tag = <<>>
    /\ states["s1"].consecutive_no_reply_count = 1
    /\ Len(states["s1"].history) = 32

\* S <= t <= E when S <= E, t >= S or t <= E when S > E, for the window
\* "S-E" of two well-formed times and the time of day t of ts
InWindow(ts, q) ==
    /\ Len(q) = 2
    /\ q[1][1] \in 0..23 /\ q[1][2] \in 0..59
    /\ q[2][1] \in 0..23 /\ q[2][2] \in 0..59
    /\ LET S == q[1][1] * 3600 + q[1][2] * 60
           E == q[2][1] * 3600 + q[2][2] * 60
           t == ts % 86400
       IN \/ S <= E /\ S <= t /\ t <= E
          \/ S > E /\ (t >= S \/ t <= E)

\* C16: _in_quiet(now, "S-E") is true exactly when the time of day of now is
\* in the window, both ends included, a window with S > E wrapping past
\* midnight; "22:00-06:00" holds 23:30, 05:00 and both ends and not 12:00; an
\* empty or malformed window gives false.  A tick runs the idle trigger of a
\* session exactly when the time is not in the window.
C16_InQuiet ==
    LET q == cfg.quiet_hours
        night == << <<22, 0>>, <<6, 0>> >>
        at(h, m) == 86400 + h * 3600 + m * 60
    IN /\ _in_quiet(clock, q) = InWindow(clock, q)
       /\ _in_quiet(at(23, 30), night) /\ _in_quiet(at(5, 0), night)
       /\ _in_quiet(at(22, 0), night) /\ _in_quiet(at(6, 0), night)
       /\ ~_in_quiet(at(12, 0), night)
       /\ ~_in_quiet(clock, <<>>) /\ ~_in_quiet(clock, << <<22, 0>> >>)
       /\ ~_in_quiet(clock, << <<25, 99>>, <<6, 0>> >>)
       /\ (trace.now = clock /\ tk.pc = "sleep")
             => (trace.calls = <<>>) = InWindow(clock, q)

\* the tick of 06:00:00 under the window 22:00-06:00 has skipped the session
C16_Witness ==
    /\ cfg.quiet_hours = << <<22, 0>>, <<6, 0>> >>
    /\ clock = 86400 + 6 * 3600
    /\ trace.now = clock /\ tk.pc = "sleep"
    /\ trace.calls = <<>>
    /\ Subscribed("s1")

\* the items of a history whose content has a character that is no blank
Kept(raw) ==
    LET items == IF raw.kind = "list" THEN raw.items
                 ELSE IF raw.kind = "dict" THEN <<raw.item>> ELSE <<>>
        text(i) == IF "str" \in DOMAIN i THEN i.str ELSE i.content
    IN SelectSeq(items, LAMBDA i : \E k \in 1..Len(text(i)) : text(i)[k] # " ")

\* C17: every item of a normalized history has a role among user, assistant
\* and system and a content that is not empty and has no blank at either end;
\* exactly the items with an empty or blank content are dropped, a role that
\* is not recognized becomes "user"; normalizing the result again gives the
\* same sequence.
C17_NormalizeHistory ==
    LET N == _normalize_history(tk.raw)
        K == Kept(tk.raw)
    IN /\ \A i \in 1..Len(N) :
             /\ DOMAIN N[i] = {"role", "content"}
             /\ N[i].role \in {"user", "assistant", "system"}
             /\ N[i].content # <<>>
             /\ N[i].content[1] # " " /\ N[i].content[Len(N[i].content)] # " "
       /\ Len(N) = Len(K)
       /\ \A i \in 1..Len(K) :
             "str" \notin DOMAIN K[i] =>
                 N[i].role = CASE K[i].role \in {"user", "system"} -> K[i].role
                               [] K[i].role \in {"AI", "Bot"} -> "assistant"
                               [] OTHER -> "user"
       /\ _normalize_history([kind |-> "list", items |-> N]) = N

\* a history whose first item is blank and whose second has the role "tool"
\* and a padded content has been collected as one item of the user
C17_Witness ==
    /\ tk.raw.kind = "list" /\ Len(tk.raw.items) = 2
    /\ tk.raw.items[1] = [role |-> "AI", content |-> <<" ">>]
    /\ tk.raw.items[2] = [role |-> "tool", content |-> <<" ", "h", " ">>]
    /\ tk.contexts = << [role |-> "user", content |-> <<"h">>] >>

\* the attempts for which _proactive_reply returned False within this step of
\* the tick: the calls the step has added that are not pending, and the pending
\* one it has ended without going on to send
FailedInStep ==
    LET before == IF tk.pc = "sleep" THEN 0 ELSE Len(trace.calls)
        pending == IF tk'.pc = "chat" THEN 1 ELSE 0
        ended == IF tk.pc = "chat" /\ tk'.pc # "send" THEN 1 ELSE 0
    IN Len(trace'.calls) - before - pending + ended

\* C18: a failed attempt (no provider, blank completion, exception) sends
\* nothing and leaves last_fired_tag, last_ts, history and subscribed of the
\* session as they were, and consecutive_no_reply_count grows by one per
\* failed attempt; the tag being unchanged, a tick in the minute of daily1
\* attempts the slot again (after the idle attempt, when that one comes first).
C18_FailedAttempt ==
    [][ /\ ( /\ "s1" \in DOMAIN states /\ tk' # tk /\ ~ReplySendStep )
            => /\ sent' = sent
               /\ states'["s1"].last_fired_tag = states["s1"].last_fired_tag
               /\ states'["s1"].last_ts = states["s1"].last_ts
               /\ states'["s1"].history = states["s1"].history
               /\ states'["s1"].subscribed = states["s1"].subscribed
               /\ states'["s1"].consecutive_no_reply_count
                    = states["s1"].consecutive_no_reply_count + FailedInStep
        /\ ( /\ TickStep /\ cfg.enable /\ Subscribed("s1")
              /\ ~_in_quiet(clock, cfg.quiet_hours)
              /\ cfg.time1 # <<>>
              /\ MinuteTag("daily1", clock)
                   = <<"daily1", clock \div 86400, cfg.time1[1], cfg.time1[2]>>
              /\ states["s1"].last_fired_tag # MinuteTag("daily1", clock) )
            => \/ <<"s1", "daily1">> \in Range(trace'.calls)
               \/ tk'.pc # "sleep" /\ tk'.stage = "idle"
      ]_vars

\* the second tick of the minute of daily1 has attempted the slot again after
\* the first one failed, and failed too
C18_Witness ==
    /\ tk.pc = "sleep" /\ Subscribed("s1")
    /\ cfg.after_last_msg_minutes = 0
    /\ trace.now % 86400 = 30
    /\ trace.calls = << <<"s1", "daily1">> >>
    /\ states["s1"].consecutive_no_reply_count = 2
    /\ states["s1"].last_fired_tag = <<>>
    /\ sent = EmptyBag

\* C19: once unwatch has completed for a session, the tick hands no proactive
\* reply for that session to the host's send-message call: the session is
\* subscribed whenever a provider call returns and its text goes on to be sent.
C19_NoReplyAfterUnwatch ==
    [][tk.pc = "chat" /\ tk'.pc = "send" => Subscribed(Head(tk.todo))]_vars

\* C20: a reminder added or deleted by command while the tick is suspended in
\* the delivery of a reminder does not make the tick fail: when the delivery
\* returns the tick goes on to the next delivery, or finishes with the
\* session state persisted and the scheduler asleep until the next period.
C20_ReminderCommandDuringDelivery ==
    [][tk.pc = "rsend" /\ tk' # tk =>
          \/ tk'.pc = "rsend"
          \/ /\ tk'.pc = "sleep"
             /\ stateDoc' = _save_states(states')
             /\ wakeAt' = clock + SleepSeconds]_vars

\* C21: a provider call that does not return holds up only its own attempt:
\* the scheduler starts the next tick when the period is over, so the call
\* that is pending was never made by a tick older than one period.
C21_StalledCallDoesNotStopTicks ==
    tk.pc = "chat" => clock - tk.now <= SleepSeconds

-----------------------------------------------------------------------------
(* Two sessions talk to the plugin while the idle trigger fires, in manual *)
(* and in auto mode: s1 writes texts and subscribes by command, s2 sends   *)
(* messages without text (an image, a sticker).                            *)

MsgConfigs ==
    {Config(mode, 1, <<NoStr, NoStr>>, NoStr, 0) : mode \in {"manual", "auto"}}

InitMsg == clock = StartClock /\ cfg \in MsgConfigs /\ InitStores

NextMsg ==
    \/ TickStart
    \/ ChatReturn
    \/ SendReturn
    \/ \E content \in Contents :
          HistoryRoom("s1", content) /\ OnAnyMessage("s1", content)
    \/ OnAnyMessage("s2", "")
    \/ CmdWatch("s1", TRUE)
    \/ AdvanceClock

SpecMsg == InitMsg /\ [][NextMsg]_vars

\* the session's record before a handler that creates it when missing
Before(u) == IF u \in DOMAIN states THEN states[u] ELSE SessionState

\* C22: the inbound-message handler sets last_ts and last_user_reply_ts of the
\* session to the current time, sets consecutive_no_reply_count to 0, appends
\* one user entry to the history iff the content is not empty, sets subscribed
\* iff subscribe_mode is "auto", and leaves last_fired_tag and the state of
\* every other session as they were.
C22_InboundMessageFrame ==
    [][\A u \in Sessions, content \in Contents :
          (tk' = tk /\ clock' = clock /\ OnAnyMessage(u, content)) =>
             /\ DOMAIN states' = DOMAIN states \cup {u}
             /\ states'[u].last_ts = clock
             /\ states'[u].last_user_reply_ts = clock
             /\ states'[u].consecutive_no_reply_count = 0
             /\ states'[u].history =
                   IF content = "" THEN Before(u).history
                   ELSE Append(Before(u).history,
                               [role |-> "user", content |-> content])
             /\ states'[u].subscribed =
                   IF cfg.subscribe_mode = "auto" THEN TRUE
                   ELSE Before(u).subscribed
             /\ states'[u].last_fired_tag = Before(u).last_fired_tag
             /\ \A v \in DOMAIN states \ {u} : states'[v] = states[v]
      ]_vars

\* s1 was sent an idle reply, which set its tag, and has written again after
\* the end of that tick (the scheduler's sleep started before now); the other
\* session has written too and, the mode being manual, is known and not
\* subscribed
C22_Witness ==
    /\ cfg.subscribe_mode = "manual"
    /\ tk.pc = "sleep" /\ wakeAt <= clock
    /\ DOMAIN states = {"s1", "s2"}
    /\ ~states["s2"].subscribed /\ states["s2"].last_ts = clock
    /\ states["s1"].last_fired_tag # NoTag
    /\ states["s1"].last_ts = clock
    /\ states["s1"].last_user_reply_ts = clock
    /\ states["s1"].history = << [role |-> "user", content |-> "hi"],
                                 [role |-> "assistant", content |-> "hello"] >>

-----------------------------------------------------------------------------
(* Everything that could touch a subscription: the plugin starts from the  *)
(* documents of a subscribed session that last wrote a day before 00:00:30 *)
(* of the coming day and of two reminders, auto-unsubscribe after a day is *)
(* configured, and messages, watch and unwatch, on and off and remind del  *)
(* interleave with the ticks.                                              *)

SubConfigs ==
    {Config(mode, 1, <<NoStr, NoStr>>, NoStr, 1) : mode \in {"manual", "auto"}}

SubStateDoc ==
    [u \in {"s1"} |->
        [SessionState EXCEPT !.last_ts = StartClock - SecPerMin,
                             !.last_user_reply_ts =
                                 StartClock + SecPerMin + SleepSeconds
                                 - SecPerDay,
                             !.subscribed = TRUE]]

InitSub ==
    /\ clock = StartClock
    /\ cfg \in SubConfigs
    /\ stateDoc = SubStateDoc
    /\ states = _load_states(SubStateDoc)
    /\ umos = <<"s1">>
    /\ remindDoc = OffRemindDoc
    /\ reminders = _load_reminders(OffRemindDoc)
    /\ tk = TkSleep
    /\ wakeAt = StartClock + SleepSeconds
    /\ sent = EmptyBag
    /\ trace = [now |-> 0, calls |-> <<>>, unsub |-> {}]

NextSub ==
    \/ TickStart
    \/ ChatReturn
    \/ SendReturn
    \/ RemindSendReturn
    \/ OnAnyMessage("s1", "")
    \/ \E b \in BOOLEAN : CmdWatch("s1", b)
    \/ \E b \in BOOLEAN : CmdEnable(b)
    \/ \E rid \in RidArgs : CmdRemindDel("s1", rid)
    \/ AdvanceClock

SpecSub == InitSub /\ [][NextSub]_vars

\* this step belongs to the tick and the tick has auto-unsubscribed u in it
AutoUnsubscribes(u) ==
    /\ tk' # tk \/ wakeAt' # wakeAt
    /\ u \in trace'.unsub
    /\ tk.pc = "sleep" \/ u \notin trace.unsub

\* C23: subscribed goes from false to true only by watch or by an inbound
\* message under subscribe_mode "auto", and from true to false only by
\* unwatch or by the auto-unsubscribe of a tick; attempts, reminder
\* operations and configuration commands leave it alone.
C23_SubscribedChanges ==
    [][\A u \in Sessions :
          LET was == Subscribed(u)
              is == u \in DOMAIN states' /\ states'[u].subscribed
          IN /\ (~was /\ is) =>
                  \/ CmdWatch(u, TRUE)
                  \/ /\ cfg.subscribe_mode = "auto"
                     /\ \E content \in Contents : OnAnyMessage(u, content)
             /\ (was /\ ~is) =>
                  \/ CmdWatch(u, FALSE)
                  \/ AutoUnsubscribes(u)
      ]_vars

\* a tick has auto-unsubscribed the session, after a failed idle attempt of
\* an earlier tick
C23_Witness ==
    /\ tk.pc = "sleep"
    /\ trace.unsub = {"s1"}
    /\ ~Subscribed("s1")
    /\ states["s1"].consecutive_no_reply_count > 0

\* C24: whenever no tick is in progress (handlers are single steps), the
\* state document equals the session map: every mutation by the inbound
\* handler, by watch and unwatch and by a tick has been written by the time
\* the operation has ended.
C24_PersistedEqualsMemory ==
    tk.pc \in {"sleep", "dead"} => stateDoc = _save_states(states)

\* the minute of ts is the one the text "HH:MM" names
IsMinute(ts, hm) ==
    hm # <<>> /\ hm[1] <= 23 /\ hm[2] <= 59
    /\ (ts % 86400) \div 3600 = hm[1] /\ (ts % 3600) \div 60 = hm[2]

\* C25: the triggers do not exclude each other.  A tick that finds the session
\* subscribed, outside quiet hours, idle for the threshold, in the minute of
\* daily1, with last_fired_tag neither the idle tag nor the daily1 tag of
\* the minute, makes an idle attempt first; and when the idle attempt of a
\* tick in the minute of daily1 is over, whatever its outcome, the tick makes
\* a daily1 attempt for the same session.
C25_IndependentTriggers ==
    [][ /\ ( /\ TickStep /\ cfg.enable /\ Subscribed("s1")
              /\ ~_in_quiet(clock, cfg.quiet_hours)
              /\ cfg.after_last_msg_minutes > 0
              /\ states["s1"].last_ts > 0
              /\ clock - states["s1"].last_ts
                    >= cfg.after_last_msg_minutes * 60
              /\ IsMinute(clock, cfg.time1)
              /\ states["s1"].last_fired_tag
                    \notin {MinuteTag("idle", clock),
                            MinuteTag("daily1", clock)} )
            => /\ trace'.calls # <<>>
               /\ trace'.calls[1] = <<"s1", "idle">>
               /\ tk'.pc = "sleep" => Len(trace'.calls) >= 2
                                      /\ trace'.calls[2] = <<"s1", "daily1">>
        /\ ( /\ tk.pc \in {"chat", "send"} /\ tk.stage = "idle"
              /\ tk' # tk /\ ~(tk'.pc = "send" /\ tk'.stage = "idle")
              /\ IsMinute(tk.now, cfg.time1)
              /\ states[Head(tk.todo)].last_fired_tag
                    # MinuteTag("daily1", tk.now) )
            => /\ Len(trace'.calls) >= 2
               /\ trace'.calls[2] = <<Head(tk.todo), "daily1">>
      ]_vars

\* a tick has delivered an idle reply and a daily1 reply to the session
C25_Witness ==
    /\ tk.pc = "sleep"
    /\ trace.calls = << <<"s1", "idle">>, <<"s1", "daily1">> >>
    /\ \E m1 \in BagToSet(sent), m2 \in BagToSet(sent) :
          /\ m1.umo = "s1" /\ m1.kind = "idle" /\ m1.now = trace.now
          /\ m2.umo = "s1" /\ m2.kind = "daily1" /\ m2.now = trace.now

-----------------------------------------------------------------------------
(* Reminders of sessions the tick passes over: the plugin starts from the  *)
(* documents of one session, subscribed or not, and of two reminders of    *)
(* midnight, one of them owned by a session that has no state; quiet hours *)
(* are unset or cover midnight.                                            *)

\* quiet_hours: "" or "23:59-00:01"
DueQuiets == {NoStr, << <<23, 59>>, <<0, 1>> >>}

InitDue ==
    /\ clock = StartClock
    /\ \E q \in DueQuiets : cfg = Config("manual", 1, <<NoStr, NoStr>>, q, 0)
    /\ \E b \in BOOLEAN :
          /\ stateDoc = [OffStateDoc EXCEPT !["s1"].subscribed = b]
          /\ states = _load_states(stateDoc)
    /\ umos = <<"s1">>
    /\ remindDoc = OffRemindDoc
    /\ reminders = _load_reminders(OffRemindDoc)
    /\ tk = TkSleep
    /\ wakeAt = StartClock + SleepSeconds
    /\ sent = EmptyBag
    /\ trace = [now |-> 0, calls |-> <<>>, unsub |-> {}]

NextDue ==
    \/ TickStart
    \/ ChatReturn
    \/ SendReturn
    \/ RemindSendReturn
    \/ \E b \in BOOLEAN : CmdWatch("s1", b)
    \/ \E b \in BOOLEAN : CmdEnable(b)
    \/ AdvanceClock

SpecDue == InitDue /\ [][NextDue]_vars

\* the positions after position i of the stored reminders that are due at ts
DueAfter(i, ts) ==
    {j \in (i + 1)..Len(reminders) :
        /\ reminders[j] # Tomb
        /\ IsMinute(ts, reminders[j].at.hm)
        /\ reminders[j].at.daily \/ ts \div 86400 = reminders[j].at.date}

\* the least number of a set of numbers that is not empty
Least(S) == CHOOSE j \in S : \A k \in S : j <= k

\* C26: every enabled tick evaluates the reminders once, whatever the
\* subscriptions and the quiet hours: a tick that has passed the sessions
\* sends the first stored reminder that is due, after each delivery the next
\* one that is due, and ends only when none is left; what it delivers goes to
\* the owner of the reminder.
C26_RemindersRegardless ==
    [][ /\ ( /\ (IF tk.pc = "sleep" THEN cfg.enable /\ TickStep
                                     ELSE tk' # tk)
             /\ tk'.pc \in {"rsend", "sleep"} )
            => LET now == IF tk.pc = "sleep" THEN clock ELSE tk.now
                   at == IF tk.pc = "rsend"
                         THEN CHOOSE j \in 1..Len(reminders) :
                                 reminders[j] = tk.r
                         ELSE 0
                   due == DueAfter(at, now)
               IN IF due = {} THEN tk'.pc = "sleep"
                  ELSE tk'.pc = "rsend" /\ tk'.r = reminders[Least(due)]
        /\ (tk.pc = "rsend" /\ sent' # sent)
            => \E m \in BagToSet(sent') :
                  /\ m.kind = "remind" /\ m.rid = tk.r.id
                  /\ m.umo = tk.r.umo /\ m.now = tk.now
                  /\ sent' = sent (+) SetToBag({m})
      ]_vars

\* a tick in quiet hours has delivered both reminders of midnight: one to a
\* session without state, one to a session that is not subscribed
C26_Witness ==
    /\ tk.pc = "sleep"
    /\ _in_quiet(trace.now, cfg.quiet_hours)
    /\ "s2" \notin DOMAIN states /\ ~Subscribed("s1")
    /\ \E m1 \in BagToSet(sent), m2 \in BagToSet(sent) :
          /\ m1.kind = "remind" /\ m1.umo = "s2" /\ m1.now = trace.now
          /\ m2.kind = "remind" /\ m2.umo = "s1" /\ m2.now = trace.now

-----------------------------------------------------------------------------
(* The daily times: the plugin starts from the document of a subscribed    *)
(* session, with daily.time1 and daily.time2 unset, set, equal, different  *)
(* or malformed, and the scheduler's sleep ends in one of the minutes the  *)
(* times name or the nudge leads to.                                       *)

\* "", "00:00", "10:59", "23:59", "25:99"
NudgeTimes == {NoStr, <<0, 0>>, <<10, 59>>, <<23, 59>>, <<25, 99>>}

\* times of day 1: 00:00, 00:01, 10:59, 11:00, 23:59
NudgeClocks ==
    {SecPerDay + h[1] * SecPerHour + h[2] * SecPerMin :
        h \in {<<0, 0>>, <<0, 1>>, <<10, 59>>, <<11, 0>>, <<23, 59>>}}

InitNudge ==
    /\ clock \in NudgeClocks
    /\ \E a \in NudgeTimes, b \in NudgeTimes :
          cfg = Config("manual", 0, <<a, b>>, NoStr, 0)
    /\ stateDoc = OffStateDoc
    /\ states = _load_states(OffStateDoc)
    /\ umos = <<"s1">>
    /\ reminders = <<>>
    /\ remindDoc = <<>>
    /\ tk = TkSleep
    /\ wakeAt = clock
    /\ sent = EmptyBag
    /\ trace = [now |-> 0, calls |-> <<>>, unsub |-> {}]

NextNudge ==
    \/ TickStart
    \/ ChatReturn
    \/ SendReturn

SpecNudge == InitNudge /\ [][NextNudge]_vars

\* the text is a time of day "HH:MM"
IsTime(hm) == hm # <<>> /\ hm[1] <= 23 /\ hm[2] <= 59

\* the minute after the time of day hm, past midnight included
MinuteAfter(hm) ==
    LET n == (hm[1] * 60 + hm[2] + 1) % (24 * 60) IN <<n \div 60, n % 60>>

\* C27: when daily.time1 and daily.time2 are both times and equal, the tick
\* uses for t2 the minute after t1 (10:59 gives 11:00, 23:59 gives 00:00),
\* so the two slots never name the same minute and a tick never makes both
\* daily attempts; otherwise it uses both as configured.
C27_NudgeOfT2 ==
    /\ tk.pc # "sleep" =>
          /\ tk.t1 = IF IsTime(cfg.time1) THEN cfg.time1 ELSE <<>>
          /\ tk.t2 = IF ~IsTime(cfg.time2) THEN <<>>
                     ELSE IF IsTime(cfg.time1) /\ cfg.time1 = cfg.time2
                          THEN MinuteAfter(cfg.time1)
                          ELSE cfg.time2
          /\ tk.t1 # <<>> /\ tk.t2 # <<>> => tk.t1 # tk.t2
    /\ ~ ( <<"s1", "daily1">> \in Range(trace.calls)
           /\ <<"s1", "daily2">> \in Range(trace.calls) )

\* both times are 23:59 and the tick of 00:00 makes the daily2 attempt
C27_Witness ==
    /\ cfg.time1 = <<23, 59>> /\ cfg.time2 = <<23, 59>>
    /\ tk.pc = "chat" /\ tk.stage = "daily2"
    /\ tk.t2 = <<0, 0>>
    /\ tk.now % 86400 = 0

-----------------------------------------------------------------------------
(* terminate: the host stops the plugin, deactivated (its files stay) or   *)
(* uninstalled (main.py is gone), while the scheduler sleeps or a tick is  *)
(* suspended in a call of the host.                                        *)

\* the configuration terminate writes when the plugin is uninstalled
DefaultConfig == Config("manual", 0, <<NoStr, NoStr>>, NoStr, 0)

\* mutant: terminate cancels only a sleeping scheduler
TerminateSleeping(is_uninstall) ==
    /\ tk.pc # "stopped"
    /\ tk' = IF tk.pc = "sleep"
             THEN [tk EXCEPT !.pc = "stopped",
                             !.stage = IF is_uninstall THEN "uninstall"
                                       ELSE "pause"]
             ELSE tk
    /\ IF is_uninstall
       THEN cfg' = DefaultConfig /\ stateDoc' = NoStates /\ remindDoc' = <<>>
       ELSE /\ stateDoc' = _save_states(states)
            /\ remindDoc' = _save_reminders(reminders)
            /\ UNCHANGED cfg
    /\ UNCHANGED <<clock, states, umos, reminders, wakeAt, sent, trace>>

\* terminate: the loop task is cancelled and awaited (CancelledError leaves
\* the await the tick is suspended in, passes the handlers of Exception and
\* ends _scheduler_loop); then the files are removed and the configuration
\* reset, or the two documents are saved.  The task keeps the locals of the
\* tick it was in; stage tells the branch terminate took.
Terminate(is_uninstall) ==
    /\ tk.pc # "stopped"
    /\ tk' = [tk EXCEPT !.pc = "stopped",
                        !.stage = IF is_uninstall THEN "uninstall"
                                  ELSE "pause"]
    /\ IF is_uninstall
       THEN cfg' = DefaultConfig /\ stateDoc' = NoStates /\ remindDoc' = <<>>
       ELSE /\ stateDoc' = _save_states(states)
            /\ remindDoc' = _save_reminders(reminders)
            /\ UNCHANGED cfg
    /\ UNCHANGED <<clock, states, umos, reminders, wakeAt, sent, trace>>

InitStop ==
    /\ clock = StartClock
    /\ cfg = Config("manual", 1, <<NoStr, NoStr>>, NoStr, 0)
    /\ stateDoc = OffStateDoc
    /\ states = _load_states(OffStateDoc)
    /\ umos = <<"s1">>
    /\ remindDoc = OffRemindDoc
    /\ reminders = _load_reminders(OffRemindDoc)
    /\ tk = TkSleep
    /\ wakeAt = StartClock + SleepSeconds
    /\ sent = EmptyBag
    /\ trace = [now |-> 0, calls |-> <<>>, unsub |-> {}]

NextStop ==
    \/ TickStart
    \/ ChatReturn
    \/ SendReturn
    \/ RemindSendReturn
    \/ \E is_uninstall \in BOOLEAN : Terminate(is_uninstall)
    \/ AdvanceClock

SpecStop == InitStop /\ [][NextStop]_vars

\* C28: terminate stops the scheduler wherever it is, and when the plugin is
\* only deactivated the two documents then equal the stores in memory; after
\* terminate no tick runs and nothing is delivered.
C28_Terminate ==
    [][ /\ (\E is_uninstall \in BOOLEAN : Terminate(is_uninstall))
            => /\ tk'.pc = "stopped"
               /\ tk'.stage = "pause"
                    => /\ stateDoc' = _save_states(states')
                       /\ remindDoc' = _save_reminders(reminders')
        /\ tk.pc = "stopped"
            => /\ tk' = tk /\ sent' = sent /\ trace' = trace
               /\ states' = states /\ reminders' = reminders
      ]_vars

\* the plugin was deactivated while a tick, after a failed idle attempt, was
\* suspended in the delivery of a reminder; a period has passed since
C28_Witness ==
    /\ tk.pc = "stopped" /\ tk.stage = "pause"
    /\ tk.now > 0 /\ tk.r # Tomb
    /\ states["s1"].consecutive_no_reply_count > 0
    /\ stateDoc = _save_states(states)
    /\ clock >= tk.now + SleepSeconds

-----------------------------------------------------------------------------
\* this step of the tick adds an idle attempt for u to the tick's calls
IdleAttemptStep(u) ==
    LET before == IF tk.pc = "sleep" THEN 0 ELSE Len(trace.calls)
    IN /\ tk' # tk \/ wakeAt' # wakeAt
       /\ \E i \in (before + 1)..Len(trace'.calls) :
             trace'.calls[i] = <<u, "idle">>

\* C29: a successful reply sets last_ts to the time of the send, last_ts
\* never goes back, and a tick makes an idle attempt only when at least
\* after_last_msg_minutes minutes lie between last_ts and its now, whatever
\* last_fired_tag is: so no idle attempt comes sooner after a reply.  Once
\* that time has passed, a tick that finds the session subscribed outside
\* quiet hours makes the idle attempt again, the tag of the earlier reply
\* notwithstanding.
C29_IdleAfterReply ==
    [][ /\ (ReplySendStep) => states'[Head(tk.todo)].last_ts = clock
        /\ "s1" \in DOMAIN states
            => /\ states'["s1"].last_ts >= states["s1"].last_ts
               /\ IdleAttemptStep("s1")
                    => /\ cfg.after_last_msg_minutes > 0
                       /\ tk'.pc # "sleep" => tk'.now = trace'.now
                       /\ trace'.now - states["s1"].last_ts
                            >= cfg.after_last_msg_minutes * 60
               /\ ( /\ TickStep /\ cfg.enable /\ Subscribed("s1")
                     /\ ~_in_quiet(clock, cfg.quiet_hours)
                     /\ states["s1"].last_fired_tag # NoTag
                     /\ cfg.after_last_msg_minutes > 0
                     /\ clock - states["s1"].last_ts
                          >= cfg.after_last_msg_minutes * 60 )
                   => trace'.calls # <<>> /\ trace'.calls[1] = <<"s1", "idle">>
      ]_vars

\* the session was sent an idle reply, has not written since, and a tick a
\* minute or more later makes the idle attempt again
C29_Witness ==
    /\ tk.pc = "chat" /\ tk.stage = "idle"
    /\ \E m \in BagToSet(sent) :
          /\ m.umo = "s1" /\ m.kind = "idle"
          /\ states["s1"].last_user_reply_ts < m.now
          /\ tk.now >= m.now + cfg.after_last_msg_minutes * 60

====
